---- MODULE Spec2Model ----
(***************************************************************************)
(* The mtype-densities command line application                            *)
(* (atlas_densities/app/mtype_densities.py): the three commands            *)
(* create_from_profile, create_from_probability_map and                    *)
(* create_from_composition, their validation helpers, and the files they   *)
(* write.  One run of one command is one behaviour: the command is chosen  *)
(* in the initial state, every load step draws the loaded value from a     *)
(* bounded set of inputs, and every check either lets the run continue or  *)
(* ends it with an exception.                                              *)
(***************************************************************************)
EXTENDS Integers, Sequences, FiniteSets, TLC

(***************************************************************************)
(* Bounds of the model.                                                    *)
(***************************************************************************)
MaxVoxels == 2
MaxTaxonomyRows == 2
MaxCompositionRows == 2
MaxMarkers == 2

(***************************************************************************)
(* numpy.allclose(a, 0.0) is |a| <= atol; voxel values are counted in      *)
(* units of atol, so that 1 and -1 are non-zero values within tolerance.   *)
(***************************************************************************)
Atol == 1

VoxelValues == {-1, 0, 2}
VoxelDimensions == {10, 25}
Offsets == {0, 5}
Mtypes == {"A", "B", "C"}
MtypeOrder == <<"A", "B", "C">>
Layers == {1, 2}
CompositionDensities == {-1, 0, 1}
SClassValues == {"EXC", "INH", "OTHER"}
AllColumns == {"mtype", "mClass", "sClass", "extra"}
MoleculeNames == {"pv", "sst"}
ConfigKeys ==
    {"mtypeToProfileMapPath", "layerSlicesPath", "densityProfilesDirPath",
     "inhibitoryNeuronDensityPath", "excitatoryNeuronDensityPath"}

VARIABLES
    cmd,          \* the command that runs
    pc,           \* the statement the command is at; "done" or "failed" at the end
    err,          \* the exception that ended the command, Ok while none did
    steps,        \* the load and check steps executed so far, in order
    config,       \* create_from_profile: the keys of the yaml configuration
    annotation,   \* the loaded annotation, <<>> while not loaded
    direction_vectors,
    inhibitory_neuron_density,
    excitatory_neuron_density,
    marker,       \* create_from_probability_map: the (name, field) pairs of --marker
    voxeldata,    \* the list of fields handed to the consistency check
    taxonomy,     \* the loaded taxonomy table
    composition,  \* the loaded composition table
    allocator,    \* the allocator calls made so far, with their arguments
    generator,    \* what the per-mtype generator has still to produce
    files,        \* the output directory: path -> content, <<>> while absent
    writes        \* the paths written so far, in order

vars ==
    <<cmd, pc, err, steps, config, annotation, direction_vectors,
      inhibitory_neuron_density, excitatory_neuron_density, marker, voxeldata,
      taxonomy, composition, allocator, generator, files, writes>>

(***************************************************************************)
(* Values.                                                                 *)
(***************************************************************************)
Ok == [kind |-> "ok", msg |-> ""]
Raise(kind, msg) == [kind |-> kind, msg |-> msg]

SeqsUpTo(S, n) == UNION {[1..k -> S] : k \in 0..n}
NonEmptySeqsUpTo(S, n) == UNION {[1..k -> S] : k \in 1..n}

ToSet(s) == {s[i] : i \in DOMAIN s}
Column(rows, col) == [i \in DOMAIN rows |-> rows[i][col]]

\* A VoxelData: the raw array (flattened) with its voxel dimensions and offset.
VoxelData(raw, voxel_dimensions, offset) ==
    [raw |-> raw, voxel_dimensions |-> voxel_dimensions, offset |-> offset]
Shape(atlas) == Len(atlas.raw)

DensityInputs ==
    {VoxelData(raw, vd, off) :
        raw \in NonEmptySeqsUpTo(VoxelValues, MaxVoxels),
        vd \in VoxelDimensions, off \in Offsets}

\* The annotation holds region identifiers, the direction vectors hold one
\* (unit) vector per voxel, recorded by its norm; their values take part in no
\* check of the application.
\* The checks only compare the fields of a run with one another, so the
\* annotation is taken on one grid and the other fields vary against it.
AnnotationInputs ==
    {VoxelData([i \in 1..n |-> 1], 25, 0) : n \in 1..MaxVoxels}
DirectionVectorInputs ==
    {VoxelData([i \in 1..n |-> 1], vd, off) :
        n \in 1..MaxVoxels, vd \in VoxelDimensions, off \in Offsets}

TaxonomyRows(columns) ==
    [columns -> Mtypes \cup SClassValues \cup {"PC", "x"}]
TaxonomyRowOk(columns, row) ==
    \A c \in columns :
        row[c] \in (CASE c = "mtype" -> Mtypes
                      [] c = "sClass" -> SClassValues
                      [] c = "mClass" -> {"PC"}
                      [] OTHER -> {"x"})
TaxonomyInputs ==
    UNION {
        {[columns |-> columns, rows |-> rows] :
            rows \in SeqsUpTo({r \in TaxonomyRows(columns) : TaxonomyRowOk(columns, r)},
                              MaxTaxonomyRows)} :
        columns \in SUBSET AllColumns}

CompositionInputs ==
    SeqsUpTo([density : CompositionDensities, layer : Layers, mtype : Mtypes],
             MaxCompositionRows)

(***************************************************************************)
(* The checks of atlas_commons.app_utils.  compare_all compares the value  *)
(* of every atlas of the list with the value of the first one.             *)
(***************************************************************************)
compare_all(values) == \A i \in DOMAIN values : values[i] = values[1]

\* "Check metadata consistency": voxel dimensions and offset.
assert_meta_properties(atlases) ==
    IF ~compare_all(Column(atlases, "voxel_dimensions"))
    THEN Raise("AtlasCommonsError", "Need to have the same voxel_dimensions for all files.")
    ELSE IF ~compare_all(Column(atlases, "offset"))
    THEN Raise("AtlasCommonsError", "Need to have the same offset for all files.")
    ELSE Ok

\* "check conforming shape, voxel dimensions, offset".
assert_properties(atlases) ==
    IF assert_meta_properties(atlases) # Ok
    THEN assert_meta_properties(atlases)
    ELSE IF ~compare_all([i \in DOMAIN atlases |-> Shape(atlases[i])])
    THEN Raise("AtlasCommonsError", "Need to have the same shape for all files.")
    ELSE Ok

(***************************************************************************)
(* The validation helpers of the module.                                   *)
(***************************************************************************)
Abs(x) == IF x < 0 THEN -x ELSE x
allclose_zero(raw) == \A i \in DOMAIN raw : Abs(raw[i]) <= Atol
any_negative(values) == \E i \in DOMAIN values : values[i] < 0

\* _validate_density with its two tests in the other order.
_validate_density_negative_first(density) ==
    IF any_negative(density.raw)
    THEN Raise("AtlasDensitiesError", "Density with negative values encountered.")
    ELSE IF allclose_zero(density.raw)
    THEN Raise("AtlasDensitiesError", "Density with zeros everywhere encountered.")
    ELSE Ok

_validate_density(density) ==
    IF allclose_zero(density.raw)
    THEN Raise("AtlasDensitiesError", "Density with zeros everywhere encountered.")
    ELSE IF any_negative(density.raw)
    THEN Raise("AtlasDensitiesError", "Density with negative values encountered.")
    ELSE Ok

ExpectedColumns == {"mtype", "mClass", "sClass"}
ExpectedSClasses == {"EXC", "INH"}

\* _validate_mtype_taxonomy accepting every sClass column within {EXC, INH}.
_validate_mtype_taxonomy_subset(tax) ==
    IF ExpectedColumns # tax.columns
    THEN Raise("AtlasDensitiesError", "Column name missmatch.")
    ELSE IF ~(ToSet(Column(tax.rows, "sClass")) \subseteq ExpectedSClasses)
    THEN Raise("AtlasDensitiesError", "sClass column values are different than expected.")
    ELSE Ok

\* taxonomy["sClass"] of a table without that column is a KeyError.
_validate_mtype_taxonomy(tax) ==
    IF ExpectedColumns # tax.columns
    THEN Raise("AtlasDensitiesError", "Column name missmatch.")
    ELSE IF "sClass" \notin tax.columns
    THEN Raise("KeyError", "sClass")
    ELSE IF ExpectedSClasses # ToSet(Column(tax.rows, "sClass"))
    THEN Raise("AtlasDensitiesError", "sClass column values are different than expected.")
    ELSE Ok

\* _validate_neuronal_mtype_composition looking at the first row only.
_validate_neuronal_mtype_composition_first_row(comp) ==
    IF comp # <<>> /\ comp[1].density < 0
    THEN Raise("AtlasDensitiesError", "Negative density values encountered in composition.")
    ELSE Ok

_validate_neuronal_mtype_composition(comp) ==
    IF any_negative(Column(comp, "density"))
    THEN Raise("AtlasDensitiesError", "Negative density values encountered in composition.")
    ELSE Ok

\* _check_taxonomy_composition_congruency checking one inclusion only.
_check_taxonomy_composition_congruency_one_way(tax, comp) ==
    IF ~(ToSet(Column(tax.rows, "mtype")) \subseteq ToSet(Column(comp, "mtype")))
    THEN Raise("AtlasDensitiesError", "Taxonomy and composition mtypes are inconsistent")
    ELSE Ok

_check_taxonomy_composition_congruency(tax, comp) ==
    IF "mtype" \notin tax.columns
    THEN Raise("KeyError", "mtype")
    ELSE IF ~(ToSet(Column(tax.rows, "mtype")) = ToSet(Column(comp, "mtype")))
    THEN Raise("AtlasDensitiesError", "Taxonomy and composition mtypes are inconsistent")
    ELSE Ok

(***************************************************************************)
(* The allocator of the composition path,                                  *)
(* densities.mtype_densities_from_composition.create_from_composition: a   *)
(* generator of (mtype, density) pairs.  Layers are visited in order; in a *)
(* layer the excitatory mtypes share the excitatory density in proportion  *)
(* of their composition densities, and a layer whose excitatory            *)
(* composition densities sum to zero is a fatal error.                     *)
(***************************************************************************)
RECURSIVE SumDensity(_, _)
SumDensity(comp, idxs) ==
    IF idxs = {} THEN 0
    ELSE LET i == CHOOSE j \in idxs : TRUE
         IN  comp[i].density + SumDensity(comp, idxs \ {i})

ExcitatoryMtypes(tax) ==
    {tax.rows[i]["mtype"] : i \in {j \in DOMAIN tax.rows : tax.rows[j]["sClass"] = "EXC"}}

LayerEntries(tax, comp, layer) ==
    {i \in DOMAIN comp : comp[i].layer = layer /\ comp[i].mtype \in ExcitatoryMtypes(tax)}

RECURSIVE LayerYields(_, _, _, _)
LayerYields(tax, comp, layer, k) ==
    IF k > Len(MtypeOrder) THEN <<>>
    ELSE LET m == MtypeOrder[k]
             rows == {i \in LayerEntries(tax, comp, layer) : comp[i].mtype = m}
             rest == LayerYields(tax, comp, layer, k + 1)
         IN  IF rows = {} THEN rest
             ELSE <<[kind |-> "yield", mtype |-> m, layer |-> layer,
                     density |-> SumDensity(comp, rows),
                     total |-> SumDensity(comp, LayerEntries(tax, comp, layer))]>> \o rest

MaxLayer == CHOOSE l \in Layers : \A k \in Layers : k <= l

RECURSIVE AllocatorEvents(_, _, _)
AllocatorEvents(tax, comp, layer) ==
    IF layer > MaxLayer THEN <<>>
    ELSE IF LayerEntries(tax, comp, layer) = {}
    THEN AllocatorEvents(tax, comp, layer + 1)
    ELSE IF SumDensity(comp, LayerEntries(tax, comp, layer)) = 0
    THEN <<[kind |-> "raise", mtype |-> "", layer |-> layer, density |-> 0, total |-> 0]>>
    ELSE LayerYields(tax, comp, layer, 1) \o AllocatorEvents(tax, comp, layer + 1)

create_from_composition_allocator(tax, comp) == AllocatorEvents(tax, comp, 1)

(***************************************************************************)
(* Output files.                                                           *)
(***************************************************************************)
Path(mtype) == mtype \o "_densities.nrrd"
OutputPaths == {Path(m) : m \in Mtypes}
NoFiles == [p \in OutputPaths |-> <<>>]

(***************************************************************************)
(* Steps shared by the commands.                                           *)
(***************************************************************************)
Fail(e) == pc' = "failed" /\ err' = e

Start(c, first) ==
    /\ cmd = c
    /\ pc = first
    /\ err = Ok
    /\ steps = <<>>
    /\ config = {}
    /\ annotation = <<>>
    /\ direction_vectors = <<>>
    /\ inhibitory_neuron_density = <<>>
    /\ excitatory_neuron_density = <<>>
    /\ marker = <<>>
    /\ voxeldata = <<>>
    /\ taxonomy = [columns |-> {}, rows |-> <<>>]
    /\ composition = <<>>
    /\ allocator = <<>>
    /\ generator = <<>>
    /\ files = NoFiles
    /\ writes = <<>>

(***************************************************************************)
(* create_from_composition.                                                *)
(***************************************************************************)
CompositionLoadAnnotationFrom(inputs) ==
    /\ cmd = "create_from_composition" /\ pc = "load_annotation"
    /\ \E a \in inputs : annotation' = <<a>>
    /\ steps' = steps \o <<"load_annotation", "load_hierarchy", "load_metadata">>
    /\ pc' = "load_density"
    /\ UNCHANGED <<cmd, err, config, direction_vectors, inhibitory_neuron_density,
                   excitatory_neuron_density, marker, voxeldata, taxonomy, composition,
                   allocator, generator, files, writes>>

CompositionLoadDensityFrom(inputs) ==
    /\ cmd = "create_from_composition" /\ pc = "load_density"
    /\ \E d \in inputs : excitatory_neuron_density' = <<d>>
    /\ steps' = Append(steps, "load_density")
    /\ pc' = "validate_density"
    /\ UNCHANGED <<cmd, err, config, annotation, direction_vectors,
                   inhibitory_neuron_density, marker, voxeldata, taxonomy, composition,
                   allocator, generator, files, writes>>

CompositionLoadAnnotation == CompositionLoadAnnotationFrom(AnnotationInputs)

CompositionLoadDensity == CompositionLoadDensityFrom(DensityInputs)

CompositionValidateDensity ==
    /\ cmd = "create_from_composition" /\ pc = "validate_density"
    /\ steps' = Append(steps, "validate_density")
    /\ LET r == _validate_density(excitatory_neuron_density[1])
       IN  IF r = Ok THEN pc' = "load_taxonomy" /\ err' = err ELSE Fail(r)
    /\ UNCHANGED <<cmd, config, annotation, direction_vectors, inhibitory_neuron_density,
                   excitatory_neuron_density, marker, voxeldata, taxonomy, composition,
                   allocator, generator, files, writes>>

CompositionLoadTaxonomy ==
    /\ cmd = "create_from_composition" /\ pc = "load_taxonomy"
    /\ \E t \in TaxonomyInputs : taxonomy' = t
    /\ steps' = Append(steps, "load_taxonomy")
    /\ pc' = "validate_taxonomy"
    /\ UNCHANGED <<cmd, err, config, annotation, direction_vectors,
                   inhibitory_neuron_density, excitatory_neuron_density, marker,
                   voxeldata, composition, allocator, generator, files, writes>>

CompositionValidateTaxonomy ==
    /\ cmd = "create_from_composition" /\ pc = "validate_taxonomy"
    /\ steps' = Append(steps, "validate_taxonomy")
    /\ LET r == _validate_mtype_taxonomy(taxonomy)
       IN  IF r = Ok THEN pc' = "load_composition" /\ err' = err ELSE Fail(r)
    /\ UNCHANGED <<cmd, config, annotation, direction_vectors, inhibitory_neuron_density,
                   excitatory_neuron_density, marker, voxeldata, taxonomy, composition,
                   allocator, generator, files, writes>>

CompositionLoadComposition ==
    /\ cmd = "create_from_composition" /\ pc = "load_composition"
    /\ \E c \in CompositionInputs : composition' = c
    /\ steps' = Append(steps, "load_composition")
    /\ pc' = "validate_composition"
    /\ UNCHANGED <<cmd, err, config, annotation, direction_vectors,
                   inhibitory_neuron_density, excitatory_neuron_density, marker,
                   voxeldata, taxonomy, allocator, generator, files, writes>>

CompositionValidateComposition ==
    /\ cmd = "create_from_composition" /\ pc = "validate_composition"
    /\ steps' = Append(steps, "validate_composition")
    /\ LET r == _validate_neuronal_mtype_composition(composition)
       IN  IF r = Ok THEN pc' = "assert_properties" /\ err' = err ELSE Fail(r)
    /\ UNCHANGED <<cmd, config, annotation, direction_vectors, inhibitory_neuron_density,
                   excitatory_neuron_density, marker, voxeldata, taxonomy, composition,
                   allocator, generator, files, writes>>

CompositionAssertProperties ==
    /\ cmd = "create_from_composition" /\ pc = "assert_properties"
    /\ steps' = Append(steps, "assert_properties")
    /\ voxeldata' = <<annotation[1], excitatory_neuron_density[1]>>
    /\ LET r == assert_properties(voxeldata')
       IN  IF r = Ok THEN pc' = "check_congruency" /\ err' = err ELSE Fail(r)
    /\ UNCHANGED <<cmd, config, annotation, direction_vectors, inhibitory_neuron_density,
                   excitatory_neuron_density, marker, taxonomy, composition,
                   allocator, generator, files, writes>>

CompositionCheckCongruency ==
    /\ cmd = "create_from_composition" /\ pc = "check_congruency"
    /\ steps' = Append(steps, "check_congruency")
    /\ LET r == _check_taxonomy_composition_congruency(taxonomy, composition)
       IN  IF r = Ok THEN pc' = "allocate" /\ err' = err ELSE Fail(r)
    /\ UNCHANGED <<cmd, config, annotation, direction_vectors, inhibitory_neuron_density,
                   excitatory_neuron_density, marker, voxeldata, taxonomy, composition,
                   allocator, generator, files, writes>>

\* The call of the allocator returns the generator; nothing is computed yet.
CompositionAllocate ==
    /\ cmd = "create_from_composition" /\ pc = "allocate"
    /\ allocator' = Append(allocator,
                           [fields |-> <<annotation[1], excitatory_neuron_density[1]>>])
    /\ generator' = create_from_composition_allocator(taxonomy, composition)
    /\ pc' = "write"
    /\ UNCHANGED <<cmd, err, steps, config, annotation, direction_vectors,
                   inhibitory_neuron_density, excitatory_neuron_density, marker,
                   voxeldata, taxonomy, composition, files, writes>>

\* One iteration of the writing loop: the generator produces its next pair, which
\* is saved under the path of its mtype, or raises, or is exhausted.
CompositionWrite ==
    /\ cmd = "create_from_composition" /\ pc = "write"
    /\ IF generator = <<>>
       THEN /\ pc' = "done"
            /\ UNCHANGED <<err, generator, files, writes>>
       ELSE IF Head(generator).kind = "raise"
       THEN /\ Fail(Raise("AtlasDensitiesError", "layer with zero total density"))
            /\ generator' = <<>>
            /\ UNCHANGED <<files, writes>>
       ELSE /\ files' = [files EXCEPT ![Path(Head(generator).mtype)] = <<Head(generator)>>]
            /\ writes' = Append(writes, Path(Head(generator).mtype))
            /\ generator' = Tail(generator)
            /\ UNCHANGED <<pc, err>>
    /\ UNCHANGED <<cmd, steps, config, annotation, direction_vectors,
                   inhibitory_neuron_density, excitatory_neuron_density, marker,
                   voxeldata, taxonomy, composition, allocator>>

InitComposition == Start("create_from_composition", "load_annotation")

NextComposition ==
    \/ CompositionLoadAnnotation
    \/ CompositionLoadDensity
    \/ CompositionValidateDensity
    \/ CompositionLoadTaxonomy
    \/ CompositionValidateTaxonomy
    \/ CompositionLoadComposition
    \/ CompositionValidateComposition
    \/ CompositionAssertProperties
    \/ CompositionCheckCongruency
    \/ CompositionAllocate
    \/ CompositionWrite

SpecComposition == InitComposition /\ [][NextComposition]_vars

(***************************************************************************)
(* create_from_composition on one valid annotation and excitatory density: *)
(* the runs in which the tables alone vary.                                *)
(***************************************************************************)
ReferenceAnnotations == {VoxelData(<<1>>, 25, 0)}
ReferenceDensities == {VoxelData(<<2>>, 25, 0)}

CompositionLoadReferenceAnnotation == CompositionLoadAnnotationFrom(ReferenceAnnotations)

CompositionLoadReferenceDensity == CompositionLoadDensityFrom(ReferenceDensities)

NextTables ==
    \/ CompositionLoadReferenceAnnotation
    \/ CompositionLoadReferenceDensity
    \/ CompositionValidateDensity
    \/ CompositionLoadTaxonomy
    \/ CompositionValidateTaxonomy
    \/ CompositionLoadComposition
    \/ CompositionValidateComposition
    \/ CompositionAssertProperties
    \/ CompositionCheckCongruency
    \/ CompositionAllocate
    \/ CompositionWrite

SpecTables == InitComposition /\ [][NextTables]_vars

(***************************************************************************)
(* create_from_profile.                                                    *)
(***************************************************************************)

\* _check_config_sanity: no command of the module calls it.
_check_config_sanity(keys) ==
    IF {"probabilityMapPath", "molecularTypeDensityPaths"} \ keys # {}
    THEN Raise("AtlasDensitiesError", "The following keys are missing from the configuration file")
    ELSE Ok

RequiredProfileKeys ==
    <<"mtypeToProfileMapPath", "layerSlicesPath", "densityProfilesDirPath">>

\* config[key] of a python dict.
getitem(keys, key) == IF key \in keys THEN Ok ELSE Raise("KeyError", key)

\* The arguments of DensityProfileCollection.load are evaluated in order.
RECURSIVE getitems(_, _, _)
getitems(keys, wanted, k) ==
    IF k > Len(wanted) THEN Ok
    ELSE IF getitem(keys, wanted[k]) # Ok THEN getitem(keys, wanted[k])
    ELSE getitems(keys, wanted, k + 1)

ProfileLoadConfig ==
    /\ cmd = "create_from_profile" /\ pc = "load_config"
    /\ \E c \in SUBSET ConfigKeys : config' = c
    /\ steps' = Append(steps, "load_config")
    /\ pc' = "load_profiles"
    /\ UNCHANGED <<cmd, err, annotation, direction_vectors, inhibitory_neuron_density,
                   excitatory_neuron_density, marker, voxeldata, taxonomy, composition,
                   allocator, generator, files, writes>>

ProfileLoadProfiles ==
    /\ cmd = "create_from_profile" /\ pc = "load_profiles"
    /\ steps' = Append(steps, "load_profiles")
    /\ LET r == getitems(config, RequiredProfileKeys, 1)
       IN  IF r = Ok THEN pc' = "load_fields" /\ err' = err ELSE Fail(r)
    /\ UNCHANGED <<cmd, config, annotation, direction_vectors, inhibitory_neuron_density,
                   excitatory_neuron_density, marker, voxeldata, taxonomy, composition,
                   allocator, generator, files, writes>>

ProfileLoadFields ==
    /\ cmd = "create_from_profile" /\ pc = "load_fields"
    /\ \E a \in AnnotationInputs, d \in DirectionVectorInputs :
          /\ annotation' = <<a>>
          /\ direction_vectors' = <<d>>
          /\ voxeldata' = <<a, d>>
    /\ steps' = steps \o <<"load_metadata", "load_hierarchy", "load_annotation",
                           "load_direction_vectors">>
    /\ pc' = "load_inhibitory"
    /\ UNCHANGED <<cmd, err, config, inhibitory_neuron_density,
                   excitatory_neuron_density, marker, taxonomy, composition,
                   allocator, generator, files, writes>>

ProfileLoadInhibitory ==
    /\ cmd = "create_from_profile" /\ pc = "load_inhibitory"
    /\ IF "inhibitoryNeuronDensityPath" \in config
       THEN /\ \E d \in DensityInputs :
                 /\ inhibitory_neuron_density' = <<d>>
                 /\ voxeldata' = Append(voxeldata, d)
            /\ steps' = Append(steps, "load_inhibitory")
       ELSE UNCHANGED <<inhibitory_neuron_density, voxeldata, steps>>
    /\ pc' = "load_excitatory"
    /\ UNCHANGED <<cmd, err, config, annotation, direction_vectors,
                   excitatory_neuron_density, marker, taxonomy, composition,
                   allocator, generator, files, writes>>

ProfileLoadExcitatory ==
    /\ cmd = "create_from_profile" /\ pc = "load_excitatory"
    /\ IF "excitatoryNeuronDensityPath" \in config
       THEN /\ \E d \in DensityInputs :
                 /\ excitatory_neuron_density' = <<d>>
                 /\ voxeldata' = Append(voxeldata, d)
            /\ steps' = Append(steps, "load_excitatory")
       ELSE UNCHANGED <<excitatory_neuron_density, voxeldata, steps>>
    /\ pc' = "check_densities"
    /\ UNCHANGED <<cmd, err, config, annotation, direction_vectors,
                   inhibitory_neuron_density, marker, taxonomy, composition,
                   allocator, generator, files, writes>>

\* if inhibitory_neuron_density is None and inhibitory_neuron_density is None
no_density_provided(inhibitory, excitatory) == inhibitory = <<>> /\ inhibitory = <<>>

ProfileCheckDensities ==
    /\ cmd = "create_from_profile" /\ pc = "check_densities"
    /\ steps' = Append(steps, "check_densities")
    /\ IF no_density_provided(inhibitory_neuron_density, excitatory_neuron_density)
       THEN Fail(Raise("AtlasDensitiesError", "No neuron density files were provided."))
       ELSE pc' = "assert_meta_properties" /\ err' = err
    /\ UNCHANGED <<cmd, config, annotation, direction_vectors, inhibitory_neuron_density,
                   excitatory_neuron_density, marker, voxeldata, taxonomy, composition,
                   allocator, generator, files, writes>>

ProfileAssertMetaProperties ==
    /\ cmd = "create_from_profile" /\ pc = "assert_meta_properties"
    /\ steps' = Append(steps, "assert_meta_properties")
    /\ LET r == assert_meta_properties(voxeldata)
       IN  IF r = Ok THEN pc' = "allocate" /\ err' = err ELSE Fail(r)
    /\ UNCHANGED <<cmd, config, annotation, direction_vectors, inhibitory_neuron_density,
                   excitatory_neuron_density, marker, voxeldata, taxonomy, composition,
                   allocator, generator, files, writes>>

\* density_profile_collection.create_mtype_densities(...)
ProfileAllocate ==
    /\ cmd = "create_from_profile" /\ pc = "allocate"
    /\ allocator' = Append(allocator,
                           [fields |-> <<annotation[1], direction_vectors[1]>>
                                       \o excitatory_neuron_density
                                       \o inhibitory_neuron_density])
    /\ pc' = "done"
    /\ UNCHANGED <<cmd, err, steps, config, annotation, direction_vectors,
                   inhibitory_neuron_density, excitatory_neuron_density, marker,
                   voxeldata, taxonomy, composition, generator, files, writes>>

InitProfile == Start("create_from_profile", "load_config")

NextProfile ==
    \/ ProfileLoadConfig
    \/ ProfileLoadProfiles
    \/ ProfileLoadFields
    \/ ProfileLoadInhibitory
    \/ ProfileLoadExcitatory
    \/ ProfileCheckDensities
    \/ ProfileAssertMetaProperties
    \/ ProfileAllocate

SpecProfile == InitProfile /\ [][NextProfile]_vars

(***************************************************************************)
(* create_from_probability_map.                                            *)
(***************************************************************************)
MarkerInputs ==
    NonEmptySeqsUpTo([name : MoleculeNames, density : DensityInputs], MaxMarkers)

\* {molecular_type: load(path) for molecular_type, path in marker}: a dict keeps
\* the position of the first pair of a key and the value of its last pair.
RECURSIVE dict_of(_, _)
dict_of(pairs, k) ==
    IF k > Len(pairs) THEN <<>>
    ELSE IF \E j \in 1..(k - 1) : pairs[j].name = pairs[k].name
    THEN dict_of(pairs, k + 1)
    ELSE LET last == CHOOSE j \in k..Len(pairs) :
                        /\ pairs[j].name = pairs[k].name
                        /\ \A i \in (j + 1)..Len(pairs) : pairs[i].name # pairs[k].name
         IN  <<pairs[last]>> \o dict_of(pairs, k + 1)

molecular_type_densities(pairs) == dict_of(pairs, 1)

MapLoadAnnotation ==
    /\ cmd = "create_from_probability_map" /\ pc = "load_annotation"
    /\ \E a \in AnnotationInputs : annotation' = <<a>>
    /\ steps' = steps \o <<"load_probability_maps", "load_hierarchy", "load_annotation">>
    /\ pc' = "load_markers"
    /\ UNCHANGED <<cmd, err, config, direction_vectors, inhibitory_neuron_density,
                   excitatory_neuron_density, marker, voxeldata, taxonomy, composition,
                   allocator, generator, files, writes>>

MapLoadMarkers ==
    /\ cmd = "create_from_probability_map" /\ pc = "load_markers"
    /\ \E m \in MarkerInputs : marker' = m
    /\ steps' = Append(steps, "load_markers")
    /\ pc' = "assert_meta_properties"
    /\ UNCHANGED <<cmd, err, config, annotation, direction_vectors,
                   inhibitory_neuron_density, excitatory_neuron_density, voxeldata,
                   taxonomy, composition, allocator, generator, files, writes>>

MapAssertMetaProperties ==
    /\ cmd = "create_from_probability_map" /\ pc = "assert_meta_properties"
    /\ steps' = Append(steps, "assert_meta_properties")
    /\ voxeldata' = <<annotation[1]>> \o Column(molecular_type_densities(marker), "density")
    /\ LET r == assert_meta_properties(voxeldata')
       IN  IF r = Ok THEN pc' = "allocate" /\ err' = err ELSE Fail(r)
    /\ UNCHANGED <<cmd, config, annotation, direction_vectors, inhibitory_neuron_density,
                   excitatory_neuron_density, marker, taxonomy, composition,
                   allocator, generator, files, writes>>

\* create_from_map(annotation, region_map, {type: density.raw}, ...)
MapAllocate ==
    /\ cmd = "create_from_probability_map" /\ pc = "allocate"
    /\ allocator' = Append(allocator,
                           [fields |-> <<annotation[1]>>
                                       \o Column(molecular_type_densities(marker), "density")])
    /\ pc' = "done"
    /\ UNCHANGED <<cmd, err, steps, config, annotation, direction_vectors,
                   inhibitory_neuron_density, excitatory_neuron_density, marker,
                   voxeldata, taxonomy, composition, generator, files, writes>>

InitMap == Start("create_from_probability_map", "load_annotation")

NextMap ==
    \/ MapLoadAnnotation
    \/ MapLoadMarkers
    \/ MapAssertMetaProperties
    \/ MapAllocate

SpecMap == InitMap /\ [][NextMap]_vars

(***************************************************************************)
(* The application: one of its three commands runs.                        *)
(***************************************************************************)
Init == InitProfile \/ InitMap \/ InitComposition

Next == NextProfile \/ NextMap \/ NextComposition

Spec == Init /\ [][Next]_vars

(***************************************************************************)
(* Properties.  The predicates below describe the inputs of a run without  *)
(* using the operators that model the checks.                              *)
(***************************************************************************)
Ended == pc \in {"done", "failed"}
LastStep == steps[Len(steps)]
Executed(step) == \E i \in DOMAIN steps : steps[i] = step
IsPrefix(s, t) == Len(s) <= Len(t) /\ \A i \in DOMAIN s : s[i] = t[i]
NothingEmitted == allocator = <<>> /\ files = NoFiles /\ writes = <<>>
DomainError == pc = "failed" /\ err.kind = "AtlasDensitiesError"
\* The command failed in the named check, before any call of the allocator.
FailedAt(step) == pc = "failed" /\ allocator = <<>> /\ LastStep = step

ZeroEverywhere(f) == \A i \in 1..Len(f.raw) : f.raw[i] = 0
ZeroWithinTolerance(f) == \A i \in 1..Len(f.raw) : f.raw[i] \in (0 - Atol)..Atol
HasNegative(f) == \E i \in 1..Len(f.raw) : f.raw[i] < 0
SameGrid(f, g) == f.voxel_dimensions = g.voxel_dimensions /\ f.offset = g.offset
SameShape(f, g) == Len(f.raw) = Len(g.raw)

\* The density fields and all the fields a command has loaded for its computation.
LoadedDensities ==
    inhibitory_neuron_density \o excitatory_neuron_density
        \o Column(molecular_type_densities(marker), "density")
LoadedFields == annotation \o direction_vectors \o LoadedDensities

DensityLoaded == excitatory_neuron_density # <<>>
TaxonomyLoaded == Executed("load_taxonomy")
CompositionLoaded == Executed("load_composition")

DensityValid ==
    /\ ~ZeroWithinTolerance(excitatory_neuron_density[1])
    /\ ~HasNegative(excitatory_neuron_density[1])
TaxonomyWellFormed ==
    /\ \A c \in AllColumns : c \in taxonomy.columns <=> c \in {"mtype", "mClass", "sClass"}
    /\ \A i \in 1..Len(taxonomy.rows) : taxonomy.rows[i]["sClass"] \in {"EXC", "INH"}
    /\ \E i \in 1..Len(taxonomy.rows) : taxonomy.rows[i]["sClass"] = "EXC"
    /\ \E i \in 1..Len(taxonomy.rows) : taxonomy.rows[i]["sClass"] = "INH"
CompositionNonNegative == \A i \in 1..Len(composition) : composition[i].density >= 0
FieldsConsistent ==
    /\ SameGrid(annotation[1], excitatory_neuron_density[1])
    /\ SameShape(annotation[1], excitatory_neuron_density[1])
InTaxonomy(m) == \E i \in 1..Len(taxonomy.rows) : taxonomy.rows[i]["mtype"] = m
InComposition(m) == \E i \in 1..Len(composition) : composition[i].mtype = m
MtypesCongruent == \A m \in Mtypes : InTaxonomy(m) <=> InComposition(m)

\* Every field handed to the allocator went through the consistency check of the
\* command, and nothing is written before the allocator is invoked.
FieldsChecked ==
    /\ allocator # <<>> =>
          /\ Len(allocator) = 1
          /\ ToSet(allocator[1].fields) \subseteq ToSet(voxeldata)
          /\ ToSet(allocator[1].fields) = ToSet(LoadedFields)
          /\ Executed("assert_properties") \/ Executed("assert_meta_properties")
    /\ allocator = <<>> => files = NoFiles

(***************************************************************************)
(* C1: in create_from_profile the error 'No neuron density files were      *)
(* provided' is raised if and only if the configuration supplies neither   *)
(* the excitatory nor the inhibitory density: once the test has run, the   *)
(* command has failed with that error exactly when both keys are absent.   *)
(***************************************************************************)
C1_NoDensityErrorIffBothAbsent ==
    (cmd = "create_from_profile" /\ Executed("check_densities")) =>
        ((pc = "failed" /\ err.msg = "No neuron density files were provided.")
            <=> (/\ "excitatoryNeuronDensityPath" \notin config
                 /\ "inhibitoryNeuronDensityPath" \notin config))

C3_NoPartialOutput ==
    (cmd = "create_from_composition" /\ pc = "failed") => files = NoFiles /\ writes = <<>>

(***************************************************************************)
(* C4: in each command every field of the computation is part of a         *)
(* consistency check that runs before the allocator is invoked, and two    *)
(* fields that differ in shape, voxel size or offset make the command fail *)
(* without invoking the allocator and without writing any output.          *)
(***************************************************************************)
C4_EveryDifferenceIsFatal ==
    /\ FieldsChecked
    /\ (\E i, j \in DOMAIN LoadedFields :
           ~SameGrid(LoadedFields[i], LoadedFields[j])
               \/ ~SameShape(LoadedFields[i], LoadedFields[j]))
          => (NothingEmitted /\ pc # "done")

(***************************************************************************)
(* What the three commands do guarantee: two fields that differ in voxel   *)
(* size or offset make the command fail without invoking the allocator and *)
(* without writing any output; two fields that differ in shape do so in    *)
(* create_from_composition alone.                                          *)
(***************************************************************************)
MetadataDifferenceIsFatal ==
    /\ FieldsChecked
    /\ (\E i, j \in DOMAIN LoadedFields :
           \/ ~SameGrid(LoadedFields[i], LoadedFields[j])
           \/ cmd = "create_from_composition" /\ ~SameShape(LoadedFields[i], LoadedFields[j]))
          => (NothingEmitted /\ pc # "done")

(***************************************************************************)
(* C5: a configuration of create_from_profile that lacks one of            *)
(* 'mtypeToProfileMapPath', 'layerSlicesPath', 'densityProfilesDirPath'    *)
(* ends the command with AtlasDensitiesError before any field is loaded.   *)
(***************************************************************************)
C5_MissingKeyIsDomainError ==
    (/\ cmd = "create_from_profile" /\ Executed("load_profiles")
     /\ \E k \in {"mtypeToProfileMapPath", "layerSlicesPath", "densityProfilesDirPath"} :
           k \notin config)
        => (DomainError /\ LoadedFields = <<>>)

(***************************************************************************)
(* C6: a negative value in a density input of any command, and an all-zero *)
(* total density of create_from_profile or create_from_composition, makes  *)
(* the command abort with AtlasDensitiesError before any output: the       *)
(* allocator is never invoked with such a field.                           *)
(***************************************************************************)
C6_BadDensityRejected ==
    \A i \in DOMAIN LoadedDensities :
        (\/ HasNegative(LoadedDensities[i])
         \/ cmd # "create_from_probability_map" /\ ZeroEverywhere(LoadedDensities[i]))
            => (NothingEmitted /\ pc # "done")

C8_CongruencyIffSameMtypes ==
    cmd = "create_from_composition" =>
        /\ Executed("check_congruency") =>
              ((FailedAt("check_congruency") /\ err.kind = "AtlasDensitiesError")
                 <=> ~MtypesCongruent)
        /\ allocator # <<>> => MtypesCongruent

C8_Witness ==
    /\ cmd = "create_from_composition" /\ allocator # <<>>
    /\ Len(taxonomy.rows) = 2 /\ Len(composition) = 2
    /\ taxonomy.rows[1]["mtype"] = composition[2].mtype
    /\ taxonomy.rows[2]["mtype"] = composition[1].mtype
    /\ taxonomy.rows[1]["mtype"] # taxonomy.rows[2]["mtype"]

(***************************************************************************)
(* C9: after a successful run of create_from_composition every file        *)
(* '<mtype>_densities.nrrd' of the output directory was written exactly    *)
(* once: no file is written a second time or replaced by a later pair of   *)
(* the same mtype.                                                         *)
(***************************************************************************)
C9_EachFileWrittenOnce ==
    (cmd = "create_from_composition" /\ pc = "done") =>
        \A p \in OutputPaths :
            /\ Cardinality({i \in DOMAIN writes : writes[i] = p}) <= 1
            /\ files[p] # <<>> <=> \E i \in DOMAIN writes : writes[i] = p

(***************************************************************************)
(* C10: create_from_composition runs its checks in the order density       *)
(* (all-zero test, then negative test), taxonomy, composition, field       *)
(* consistency, congruency; the first check that fails in this order ends  *)
(* the command with its error, nothing is loaded or checked after it, and  *)
(* the allocator is invoked only after the five checks have passed.        *)
(***************************************************************************)
CompositionOrder ==
    <<"load_annotation", "load_hierarchy", "load_metadata", "load_density",
      "validate_density", "load_taxonomy", "validate_taxonomy", "load_composition",
      "validate_composition", "assert_properties", "check_congruency">>

C10_ChecksInOrder ==
    cmd = "create_from_composition" =>
        /\ IsPrefix(steps, CompositionOrder)
        /\ FailedAt("validate_density") =>
              /\ ZeroWithinTolerance(excitatory_neuron_density[1])
                    => err.msg = "Density with zeros everywhere encountered."
              /\ ~ZeroWithinTolerance(excitatory_neuron_density[1])
                    => (/\ HasNegative(excitatory_neuron_density[1])
                        /\ err.msg = "Density with negative values encountered.")
              /\ taxonomy.rows = <<>> /\ composition = <<>>
        /\ (Executed("validate_density") /\ ~FailedAt("validate_density")) => DensityValid
        /\ FailedAt("validate_taxonomy") =>
              /\ ~TaxonomyWellFormed
              /\ err.msg \in {"Column name missmatch.",
                              "sClass column values are different than expected."}
              /\ composition = <<>>
        /\ (Executed("validate_taxonomy") /\ ~FailedAt("validate_taxonomy"))
              => TaxonomyWellFormed
        /\ FailedAt("validate_composition") =>
              /\ ~CompositionNonNegative
              /\ err.msg = "Negative density values encountered in composition."
        /\ (Executed("validate_composition") /\ ~FailedAt("validate_composition"))
              => CompositionNonNegative
        /\ FailedAt("assert_properties") =>
              (~FieldsConsistent /\ err.kind = "AtlasCommonsError")
        /\ (Executed("assert_properties") /\ ~FailedAt("assert_properties"))
              => FieldsConsistent
        /\ FailedAt("check_congruency") =>
              (~MtypesCongruent
                  /\ err.msg = "Taxonomy and composition mtypes are inconsistent")
        /\ (Executed("check_congruency") /\ ~FailedAt("check_congruency"))
              => MtypesCongruent
        /\ allocator # <<>> => steps = CompositionOrder
        /\ (pc = "failed" /\ allocator = <<>>) =>
              LastStep \in {"validate_density", "validate_taxonomy",
                            "validate_composition", "assert_properties",
                            "check_congruency"}

C10_Witness ==
    /\ cmd = "create_from_composition" /\ FailedAt("validate_density")
    /\ HasNegative(excitatory_neuron_density[1])
    /\ err.msg = "Density with zeros everywhere encountered."

====
